---- MODULE Spec2Model ----
(***************************************************************************)
(* A model of the PLY parser facade of ply-rs (src/parser/mod.rs): the     *)
(* header reader __read_header, the payload dispatcher __read_payload and  *)
(* the public entry points read_header, read_ply and                       *)
(* read_payload_for_element.                                               *)
(*                                                                         *)
(* The stream is supplied by the environment one read at a time: every     *)
(* read_line step draws the next physical line of the stream (or the end   *)
(* of the stream, or an I/O failure), and `stream` records the lines that  *)
(* have been handed to the parser so far.  A line is a sequence of words   *)
(* (the whitespace-separated tokens of its text) followed by its           *)
(* terminator characters.                                                  *)
(***************************************************************************)
EXTENDS Integers, Sequences, FiniteSets, TLC

VARIABLES
    pc,                 \* position of the running call
    call,               \* the entry point that was called
    stream,             \* the lines read from the stream so far, in order
    eof,                \* the stream is exhausted
    location,           \* LocationTracker.line_index
    line_str,           \* the buffer read_line filled last
    lines,              \* what __read_header_line made of each line read, in order
    header_form_ver,    \* Option<(Encoding, Version)>
    header_obj_infos,   \* Vec<ObjInfo>
    header_elements,    \* KeyMap<ElementDef>, front to back
    header_comments,    \* Vec<Comment>
    header,             \* the Header the payload is read for
    element_def,        \* the ElementDef whose records are being read
    todo,               \* the elements __read_payload has not read yet
    elems,              \* Vec<E>: the records read for element_def so far
    payload,            \* Payload<E>, front to back
    err_at,             \* the number of the read at which the call returned an error
    result,             \* what the call returned
    parser,             \* the Parser value that calls running side by side share
    inputs,             \* the stream each of these calls reads, as its lines
    trackers,           \* the LocationTrackers of these calls: line_index of each
    calls               \* the position, locals and result of each of these calls

hvars == <<header_form_ver, header_obj_infos, header_elements, header_comments>>
pvars == <<header, element_def, todo, elems, payload>>
cvars == <<pc, call, stream, eof, location, line_str, lines, hvars, pvars, err_at, result>>
svars == <<parser, inputs, trackers, calls>>
vars == <<cvars, svars>>

\* ------------------------------------------------------------------ bounds

\* Lines the header loop may accept before the stream must end the header.
MaxLines == 4

\* ------------------------------------------------------ text of the stream

LF == "<LF>"
CR == "<CR>"
IsBreakChar(w) == w = LF \/ w = CR

\* Encoding names and scalar type names of the header grammar.
EncodingOf ==
    [w \in {"ascii", "binary_big_endian", "binary_little_endian"} |->
        CASE w = "ascii" -> "Ascii"
          [] w = "binary_big_endian" -> "BinaryBigEndian"
          [] w = "binary_little_endian" -> "BinaryLittleEndian"]

VersionOf ==
    [w \in {"1.0", "1.1"} |->
        CASE w = "1.0" -> [major |-> 1, minor |-> 0]
          [] w = "1.1" -> [major |-> 1, minor |-> 1]]

NumberOf ==
    [w \in {"0", "1", "2", "3"} |->
        CASE w = "0" -> 0 [] w = "1" -> 1 [] w = "2" -> 2 [] w = "3" -> 3]

ScalarTypeOf ==
    [w \in {"char", "int8", "uchar", "uint8", "short", "int16", "ushort", "uint16",
            "int", "int32", "uint", "uint32", "float", "float32", "double", "float64"} |->
        CASE w \in {"char", "int8"} -> "Char"
          [] w \in {"uchar", "uint8"} -> "UChar"
          [] w \in {"short", "int16"} -> "Short"
          [] w \in {"ushort", "uint16"} -> "UShort"
          [] w \in {"int", "int32"} -> "Int"
          [] w \in {"uint", "uint32"} -> "UInt"
          [] w \in {"float", "float32"} -> "Float"
          [] w \in {"double", "float64"} -> "Double"]

\* The reserved words of the header grammar: never a name.
Keywords == {"ply", "format", "comment", "obj_info", "element", "property",
             "list", "end_header"}

IsName(w) == ~IsBreakChar(w) /\ w \notin Keywords /\ w \notin DOMAIN NumberOf

\* ---------------------------------------------------------------- Results

Ok(v) == [tag |-> "Ok", val |-> v]
Err(kind) == [tag |-> "Err", kind |-> kind, located |-> FALSE, line |-> 0]
Panic == [tag |-> "Panic"]
Pending == [tag |-> "Pending"]

None == [some |-> FALSE]
Some(v) == [some |-> TRUE, val |-> v]

\* parse_ascii_error citing the line after location.line_index.
parse_ascii_error_next_line(loc, kind) ==
    [tag |-> "Err", kind |-> kind, located |-> TRUE, line |-> loc + 1]

\* parse_ascii_error / parse_ascii_rethrow: an error that cites location.line_index.
parse_ascii_error(loc, kind) ==
    [tag |-> "Err", kind |-> kind, located |-> TRUE, line |-> loc]

\* LocationTracker::next_line
next_line(loc) == loc + 1

\* ------------------------------------------------------------ grammar::line

\* The Line a text without its line break stands for, or a parse error.
trimmed_line(ws) ==
    IF Len(ws) = 0 \/ \E i \in 1..Len(ws) : IsBreakChar(ws[i])
    THEN [tag |-> "Err"]
    ELSE CASE ws = <<"ply">> -> Ok([kind |-> "MagicNumber"])
           [] ws = <<"end_header">> -> Ok([kind |-> "EndHeader"])
           [] Len(ws) = 3 /\ ws[1] = "format"
                /\ ws[2] \in DOMAIN EncodingOf /\ ws[3] \in DOMAIN VersionOf ->
                Ok([kind |-> "Format", val |-> <<EncodingOf[ws[2]], VersionOf[ws[3]]>>])
           [] ws[1] = "obj_info" -> Ok([kind |-> "ObjInfo", val |-> Tail(ws)])
           [] ws[1] = "comment" -> Ok([kind |-> "Comment", val |-> Tail(ws)])
           [] Len(ws) = 3 /\ ws[1] = "element" /\ IsName(ws[2])
                /\ ws[3] \in DOMAIN NumberOf ->
                Ok([kind |-> "Element",
                    val |-> [name |-> ws[2], count |-> NumberOf[ws[3]],
                             properties |-> <<>>]])
           [] Len(ws) = 3 /\ ws[1] = "property"
                /\ ws[2] \in DOMAIN ScalarTypeOf /\ IsName(ws[3]) ->
                Ok([kind |-> "Property",
                    val |-> [name |-> ws[3],
                             data_type |-> <<"Scalar", ScalarTypeOf[ws[2]]>>]])
           [] Len(ws) = 5 /\ ws[1] = "property" /\ ws[2] = "list"
                /\ ws[3] \in DOMAIN ScalarTypeOf /\ ws[4] \in DOMAIN ScalarTypeOf
                /\ IsName(ws[5]) ->
                Ok([kind |-> "Property",
                    val |-> [name |-> ws[5],
                             data_type |-> <<"List", ScalarTypeOf[ws[3]],
                                             ScalarTypeOf[ws[4]]>>]])
           [] OTHER -> [tag |-> "Err"]

\* The text of a line without the line break that ends it (LF, CR or CR LF).
StripBreak(s) ==
    LET n == Len(s) IN
    IF n >= 2 /\ s[n - 1] = CR /\ s[n] = LF THEN SubSeq(s, 1, n - 2)
    ELSE IF n >= 1 /\ IsBreakChar(s[n]) THEN SubSeq(s, 1, n - 1)
    ELSE s

\* grammar::line, as Parser::__read_header_line calls it.
read_header_line(s) == trimmed_line(StripBreak(s))

\* ------------------------------------------------------------------ KeyMap

\* KeyMap<V>: an insertion-ordered map keyed by the value's name, kept as the
\* sequence of its values from front to back.
Without(m, k) == SelectSeq(m, LAMBDA v : v.name # k)

\* KeyMap::add: the value goes to the back of the map under its own name. The
\* callers (mod.rs:161, 172, 173) use add as a statement with no result, so it
\* cannot report a key that exists: as in any unique-key map the new value
\* replaces the old one, and it takes the place at the back.
KeyMapAdd(m, v) == Append(Without(m, v.name), v)

\* KeyMap::is_empty
KeyMapIsEmpty(m) == Len(m) = 0

\* KeyMap::pop_back: the entry at the back and the map without it, if any.
KeyMapPopBack(m) ==
    IF Len(m) = 0 THEN None
    ELSE Some([entry |-> m[Len(m)], rest |-> SubSeq(m, 1, Len(m) - 1)])

\* Option::is_none
IsNone(o) == ~o.some

\* Option::unwrap: the value, or a panic on None.
Unwrap(o) == IF o.some THEN Ok(o.val) ELSE Panic

\* ----------------------------------------------------------- __read_header

\* The words the header lines of the model are made of.
FormatTexts == {<<"format", "ascii", "1.0">>, <<"format", "ascii", "1.1">>,
                <<"format", "binary_big_endian", "1.0">>,
                <<"format", "binary_little_endian", "1.0">>}
ElementTexts == {<<"element", "vertex", "2">>, <<"element", "face", "0">>,
                 <<"element", "face", "1">>}
PropertyTexts == {<<"property", "short", "x">>, <<"property", "uchar", "y">>,
                  <<"property", "list", "uchar", "short", "x">>}
OtherTexts == {<<"ply">>, <<"end_header">>, <<"comment", "hi">>,
               <<"obj_info", "hi">>, <<"plyhi">>}
HeaderTexts == FormatTexts \cup ElementTexts \cup PropertyTexts \cup OtherTexts

\* What one read_line call can deliver while the header is read: a line of the
\* stream with its line feed, nothing (the stream is exhausted) or a failure of
\* the underlying reader.
HeaderReads ==
    {[io_err |-> FALSE, line |-> t \o <<LF>>] : t \in HeaderTexts}
        \cup {[io_err |-> FALSE, line |-> <<>>], [io_err |-> TRUE, line |-> <<>>]}

\* The words of the header lines that are read with every kind of line break.
LineTexts == {<<"ply">>, <<"format", "ascii", "1.0">>, <<"element", "vertex", "1">>,
              <<"property", "short", "x">>, <<"comment", "hi">>, <<"comment">>,
              <<"obj_info", "hi">>, <<"end_header">>}

\* The lines that are also read with the line break CR LF.
CRLFTexts == LineTexts \ {<<"comment">>, <<"obj_info", "hi">>}

\* A header whose lines end in CR alone. read_line reads up to a line feed, so
\* one call delivers all of it.
CRTexts == <<"ply", CR, "format", "ascii", "1.0", CR, "end_header", CR>>

\* What one read_line call can deliver on a stream whose lines end in LF or in
\* CR LF, or that holds CR alone: a line up to and with its line feed, the last
\* line of a stream that does not end in a line feed, nothing, or a failure.
LineReads ==
    {[io_err |-> FALSE, line |-> t \o <<LF>>] : t \in LineTexts}
        \cup {[io_err |-> FALSE, line |-> t \o <<CR, LF>>] : t \in CRLFTexts}
        \cup {[io_err |-> FALSE, line |-> CRTexts],
              [io_err |-> FALSE, line |-> <<"end_header">>],
              [io_err |-> FALSE, line |-> <<"end_header", CR>>]}
        \cup {[io_err |-> FALSE, line |-> <<>>], [io_err |-> TRUE, line |-> <<>>]}

\* The header under construction: the locals of __read_header.
NewHeaderState ==
    [form_ver |-> None, obj_infos |-> <<>>, elements |-> <<>>, comments |-> <<>>]

\* is_line!(grammar::line(&line_str), Line::MagicNumber): passes on the magic
\* number and returns an error on everything else.
is_line(parsed) == parsed.tag = "Ok" /\ parsed.val.kind = "MagicNumber"

\* MagicLine with every line the grammar accepts taken for the magic number.
MagicLineAnyLine(loc, ln) ==
    LET parsed == read_header_line(ln) IN
    IF parsed.tag = "Ok" THEN Pending
    ELSE parse_ascii_error(loc, "ExpectedMagicNumber")

\* The first line: what follows location.next_line() and read_line.
\* Gives the error the call returns, or Pending when the loop is entered.
MagicLine(loc, ln) ==
    LET parsed == read_header_line(ln) IN
    IF parsed.tag = "Ok" /\ parsed.val.kind = "MagicNumber"
    THEN IF is_line(parsed) THEN Pending ELSE Err("InvalidLine")
    ELSE parse_ascii_error(loc, "ExpectedMagicNumber")

\* FormatArm with the test for a recorded format inverted.
FormatArmInverted(h, loc, t) ==
    IF ~IsNone(h.form_ver)
    THEN [h |-> [h EXCEPT !.form_ver = Some(t)], out |-> Pending]
    ELSE LET f == Unwrap(h.form_ver) IN
         IF f.tag = "Panic" THEN [h |-> h, out |-> Panic]
         ELSE IF f.val # t
              THEN [h |-> h, out |-> parse_ascii_error(loc, "ContradictingFormat")]
              ELSE [h |-> h, out |-> Pending]

\* FormatArm with the later format compared by its encoding alone.
FormatArmEncodingOnly(h, loc, t) ==
    IF IsNone(h.form_ver)
    THEN [h |-> [h EXCEPT !.form_ver = Some(t)], out |-> Pending]
    ELSE LET f == Unwrap(h.form_ver) IN
         IF f.tag = "Panic" THEN [h |-> h, out |-> Panic]
         ELSE IF f.val[1] # t[1]
              THEN [h |-> h, out |-> parse_ascii_error(loc, "ContradictingFormat")]
              ELSE [h |-> h, out |-> Pending]

\* Line::Format: record the first format, compare every later one with it.
FormatArm(h, loc, t) ==
    IF IsNone(h.form_ver)
    THEN [h |-> [h EXCEPT !.form_ver = Some(t)], out |-> Pending]
    ELSE LET f == Unwrap(h.form_ver) IN
         IF f.tag = "Panic" THEN [h |-> h, out |-> Panic]
         ELSE IF f.val # t
              THEN [h |-> h, out |-> parse_ascii_error(loc, "ContradictingFormat")]
              ELSE [h |-> h, out |-> Pending]

\* Line::Element: header_elements.add(e.clone()).
ElementArm(h, loc, e) ==
    [h |-> [h EXCEPT !.elements = KeyMapAdd(h.elements, e)], out |-> Pending]

\* PropertyArm without the test for an empty elements mapping.
PropertyArmUnchecked(h, loc, p) ==
    LET popped == Unwrap(KeyMapPopBack(h.elements)) IN
    IF popped.tag = "Panic" THEN [h |-> h, out |-> Panic]
    ELSE LET e == [popped.val.entry EXCEPT
                      !.properties = KeyMapAdd(popped.val.entry.properties, p)]
         IN [h |-> [h EXCEPT !.elements = KeyMapAdd(popped.val.rest, e)],
             out |-> Pending]

\* PropertyArm with the popped element not added again.
PropertyArmNoReAdd(h, loc, p) ==
    IF KeyMapIsEmpty(h.elements)
    THEN [h |-> h, out |-> parse_ascii_error(loc, "PropertyWithoutElement")]
    ELSE LET popped == Unwrap(KeyMapPopBack(h.elements)) IN
         IF popped.tag = "Panic" THEN [h |-> h, out |-> Panic]
         ELSE [h |-> [h EXCEPT !.elements = popped.val.rest], out |-> Pending]

\* PropertyArm with the popped element added again at the front of the mapping.
PropertyArmReAddFront(h, loc, p) ==
    IF KeyMapIsEmpty(h.elements)
    THEN [h |-> h, out |-> parse_ascii_error(loc, "PropertyWithoutElement")]
    ELSE LET popped == Unwrap(KeyMapPopBack(h.elements)) IN
         IF popped.tag = "Panic" THEN [h |-> h, out |-> Panic]
         ELSE LET e == [popped.val.entry EXCEPT
                           !.properties = KeyMapAdd(popped.val.entry.properties, p)]
              IN [h |-> [h EXCEPT !.elements = <<e>> \o popped.val.rest],
                  out |-> Pending]

\* Line::Property: pop the last element, add the property to it, add it again.
PropertyArm(h, loc, p) ==
    IF KeyMapIsEmpty(h.elements)
    THEN [h |-> h, out |-> parse_ascii_error(loc, "PropertyWithoutElement")]
    ELSE LET popped == Unwrap(KeyMapPopBack(h.elements)) IN
         IF popped.tag = "Panic" THEN [h |-> h, out |-> Panic]
         ELSE LET e == [popped.val.entry EXCEPT
                           !.properties = KeyMapAdd(popped.val.entry.properties, p)]
              IN [h |-> [h EXCEPT !.elements = KeyMapAdd(popped.val.rest, e)],
                  out |-> Pending]

\* HeaderLine with a line the grammar rejects skipped instead of reported.
HeaderLineSkipRejected(h, loc, ln) ==
    LET parsed == read_header_line(ln) IN
    IF parsed.tag = "Err"
    THEN [h |-> h, out |-> Pending]
    ELSE LET l == parsed.val IN
         CASE l.kind = "MagicNumber" ->
                [h |-> h, out |-> parse_ascii_error(loc, "UnexpectedMagicNumber")]
           [] l.kind = "Format" -> FormatArm(h, loc, l.val)
           [] l.kind = "ObjInfo" ->
                [h |-> [h EXCEPT !.obj_infos = Append(h.obj_infos, l.val)],
                 out |-> Pending]
           [] l.kind = "Comment" ->
                [h |-> [h EXCEPT !.comments = Append(h.comments, l.val)],
                 out |-> Pending]
           [] l.kind = "Element" -> ElementArm(h, loc, l.val)
           [] l.kind = "Property" -> PropertyArm(h, loc, l.val)
           [] l.kind = "EndHeader" -> [h |-> h, out |-> Ok("break")]

\* HeaderLine with a comment put before the comments recorded so far.
HeaderLineCommentFirst(h, loc, ln) ==
    LET parsed == read_header_line(ln) IN
    IF parsed.tag = "Err"
    THEN [h |-> h, out |-> parse_ascii_error(loc, "ParseError")]
    ELSE LET l == parsed.val IN
         CASE l.kind = "MagicNumber" ->
                [h |-> h, out |-> parse_ascii_error(loc, "UnexpectedMagicNumber")]
           [] l.kind = "Format" -> FormatArm(h, loc, l.val)
           [] l.kind = "ObjInfo" ->
                [h |-> [h EXCEPT !.obj_infos = Append(h.obj_infos, l.val)],
                 out |-> Pending]
           [] l.kind = "Comment" ->
                [h |-> [h EXCEPT !.comments = <<l.val>> \o h.comments],
                 out |-> Pending]
           [] l.kind = "Element" -> ElementArm(h, loc, l.val)
           [] l.kind = "Property" -> PropertyArm(h, loc, l.val)
           [] l.kind = "EndHeader" -> [h |-> h, out |-> Ok("break")]

\* HeaderLine with end_header taken for one more line of the header.
HeaderLineNoBreak(h, loc, ln) ==
    LET parsed == read_header_line(ln) IN
    IF parsed.tag = "Err"
    THEN [h |-> h, out |-> parse_ascii_error(loc, "ParseError")]
    ELSE LET l == parsed.val IN
         CASE l.kind = "MagicNumber" ->
                [h |-> h, out |-> parse_ascii_error(loc, "UnexpectedMagicNumber")]
           [] l.kind = "Format" -> FormatArm(h, loc, l.val)
           [] l.kind = "ObjInfo" ->
                [h |-> [h EXCEPT !.obj_infos = Append(h.obj_infos, l.val)],
                 out |-> Pending]
           [] l.kind = "Comment" ->
                [h |-> [h EXCEPT !.comments = Append(h.comments, l.val)],
                 out |-> Pending]
           [] l.kind = "Element" -> ElementArm(h, loc, l.val)
           [] l.kind = "Property" -> PropertyArm(h, loc, l.val)
           [] l.kind = "EndHeader" -> [h |-> h, out |-> Pending]

\* One pass of the 'readlines loop over the line just read. out is Pending when
\* the loop goes on, Ok when end_header breaks it, and else what the call returns.
HeaderLine(h, loc, ln) ==
    LET parsed == read_header_line(ln) IN
    IF parsed.tag = "Err"
    THEN [h |-> h, out |-> parse_ascii_error(loc, "ParseError")]
    ELSE LET l == parsed.val IN
         CASE l.kind = "MagicNumber" ->
                [h |-> h, out |-> parse_ascii_error(loc, "UnexpectedMagicNumber")]
           [] l.kind = "Format" -> FormatArm(h, loc, l.val)
           [] l.kind = "ObjInfo" ->
                [h |-> [h EXCEPT !.obj_infos = Append(h.obj_infos, l.val)],
                 out |-> Pending]
           [] l.kind = "Comment" ->
                [h |-> [h EXCEPT !.comments = Append(h.comments, l.val)],
                 out |-> Pending]
           [] l.kind = "Element" -> ElementArm(h, loc, l.val)
           [] l.kind = "Property" -> PropertyArm(h, loc, l.val)
           [] l.kind = "EndHeader" -> [h |-> h, out |-> Ok("break")]

\* HeaderResult with a default format in place of the missing-format error.
HeaderResultDefaultFormat(h) ==
    LET f == IF IsNone(h.form_ver) THEN <<"Ascii", [major |-> 1, minor |-> 0]>>
             ELSE h.form_ver.val
    IN Ok([encoding |-> f[1], version |-> f[2],
           obj_infos |-> h.obj_infos, comments |-> h.comments,
           elements |-> h.elements])

\* After the loop: no format line is an error, else the Header is assembled.
HeaderResult(h) ==
    IF IsNone(h.form_ver) THEN Err("NoFormat")
    ELSE LET f == Unwrap(h.form_ver) IN
         IF f.tag = "Panic" THEN Panic
         ELSE Ok([encoding |-> f.val[1], version |-> f.val[2],
                  obj_infos |-> h.obj_infos, comments |-> h.comments,
                  elements |-> h.elements])

\* The header under construction, as one record.
Hdr ==
    [form_ver |-> header_form_ver, obj_infos |-> header_obj_infos,
     elements |-> header_elements, comments |-> header_comments]

SetHdr(h) ==
    /\ header_form_ver' = h.form_ver
    /\ header_obj_infos' = h.obj_infos
    /\ header_elements' = h.elements
    /\ header_comments' = h.comments

\* Return with the call going on after the result is set.
ReturnAndGoOn(r) ==
    /\ result' = r
    /\ pc' = pc
    /\ err_at' = IF r.tag # "Err" THEN err_at
                 ELSE IF r.kind = "Io" THEN Len(stream') + 1
                 ELSE Len(stream')

\* The call returns r: nothing more is read. err_at keeps the number of the read
\* an error was returned at (a read that fails delivers no line).
Return(r) ==
    /\ result' = r
    /\ pc' = "done"
    /\ err_at' = IF r.tag # "Err" THEN err_at
                 ELSE IF r.kind = "Io" THEN Len(stream') + 1
                 ELSE Len(stream')

\* --------------------------------------------------------- payload decoders

\* An element instance E is a KeyMap<Property>: [name, value] entries in the order
\* the properties were set.

Reverse(s) == [i \in 1..Len(s) |-> s[Len(s) + 1 - i]]

\* grammar::data_line: the number tokens of a record line, or a parse error.
data_line(s) ==
    LET ws == StripBreak(s) IN
    IF \E i \in 1..Len(ws) : ws[i] \notin DOMAIN NumberOf
    THEN [tag |-> "Err"]
    ELSE Ok(ws)

\* The integers a token of scalar type t may spell (a float takes any number).
FitsType(t, n) ==
    CASE t = "Char" -> n \in -128..127
      [] t = "UChar" -> n \in 0..255
      [] t = "Short" -> n \in -32768..32767
      [] t = "UShort" -> n \in 0..65535
      [] t = "Int" -> n \in (-2147483647 - 1)..2147483647
      [] t = "UInt" -> n >= 0     \* its upper limit is beyond the model's numbers
      [] OTHER -> TRUE

\* One token parsed as a scalar of type t: the value and the tokens left.
AsciiScalar(t, toks) ==
    IF Len(toks) = 0 THEN [tag |-> "Err"]
    ELSE IF ~FitsType(t, NumberOf[Head(toks)]) THEN [tag |-> "Err"]
    ELSE Ok([value |-> NumberOf[Head(toks)], rest |-> Tail(toks)])

RECURSIVE AsciiList(_, _, _, _)
\* n further tokens, each parsed as a scalar of type t.
AsciiList(t, n, toks, acc) ==
    IF n = 0 THEN Ok([value |-> acc, rest |-> toks])
    ELSE LET v == AsciiScalar(t, toks) IN
         IF v.tag = "Err" THEN v
         ELSE AsciiList(t, n - 1, v.val.rest, Append(acc, v.val.value))

\* __read_ascii_property: a Scalar takes one token, a List a count and then
\* that many tokens.
read_ascii_property(data_type, toks) ==
    IF data_type[1] = "Scalar" THEN AsciiScalar(data_type[2], toks)
    ELSE LET c == AsciiScalar(data_type[2], toks) IN
         IF c.tag = "Err" THEN c
         ELSE AsciiList(data_type[3], c.val.value, c.val.rest, <<>>)

RECURSIVE AsciiProperties(_, _, _)
AsciiProperties(props, toks, acc) ==
    IF Len(props) = 0 THEN Ok(acc)
    ELSE LET v == read_ascii_property(Head(props).data_type, toks) IN
         IF v.tag = "Err" THEN v
         ELSE AsciiProperties(Tail(props), v.val.rest,
                  KeyMapAdd(acc, [name |-> Head(props).name, value |-> v.val.value]))

\* read_ascii_element with the properties taken last to first.
read_ascii_element_reversed(line, e) ==
    LET toks == data_line(line) IN
    IF toks.tag = "Err" THEN toks
    ELSE AsciiProperties(Reverse(e.properties), toks.val, <<>>)

\* Parser::read_ascii_element: one record line decoded by the element's
\* properties in their declared order; tokens left over are ignored.
read_ascii_element(line, e) ==
    LET toks == data_line(line) IN
    IF toks.tag = "Err" THEN toks
    ELSE AsciiProperties(e.properties, toks.val, <<>>)

\* The number of bytes of a scalar type.
ByteWidth(t) ==
    CASE t \in {"Char", "UChar"} -> 1
      [] t \in {"Short", "UShort"} -> 2
      [] t \in {"Int", "UInt", "Float"} -> 4
      [] t = "Double" -> 8

RECURSIVE BigEndianValue(_)
BigEndianValue(bs) ==
    IF Len(bs) = 0 THEN 0
    ELSE BigEndianValue(SubSeq(bs, 1, Len(bs) - 1)) * 256 + bs[Len(bs)]

\* The bytes of one scalar read in byte order B.
ByteOrderValue(order, bs) ==
    IF order = "BigEndian" THEN BigEndianValue(bs) ELSE BigEndianValue(Reverse(bs))

\* A scalar of type t read from the bytes buf: the value and the bytes left, or
\* an error when the stream ends first.
BinaryScalar(order, t, buf) ==
    IF Len(buf) < ByteWidth(t) THEN [tag |-> "Err"]
    ELSE Ok([value |-> ByteOrderValue(order, SubSeq(buf, 1, ByteWidth(t))),
             rest |-> SubSeq(buf, ByteWidth(t) + 1, Len(buf))])

RECURSIVE BinaryList(_, _, _, _, _)
BinaryList(order, t, n, buf, acc) ==
    IF n = 0 THEN Ok([value |-> acc, rest |-> buf])
    ELSE LET v == BinaryScalar(order, t, buf) IN
         IF v.tag = "Err" THEN v
         ELSE BinaryList(order, t, n - 1, v.val.rest, Append(acc, v.val.value))

\* __read_binary_property
read_binary_property(order, data_type, buf) ==
    IF data_type[1] = "Scalar" THEN BinaryScalar(order, data_type[2], buf)
    ELSE LET c == BinaryScalar(order, data_type[2], buf) IN
         IF c.tag = "Err" THEN c
         ELSE BinaryList(order, data_type[3], c.val.value, c.val.rest, <<>>)

RECURSIVE BinaryProperties(_, _, _, _)
BinaryProperties(order, props, buf, acc) ==
    IF Len(props) = 0 THEN Ok([elem |-> acc, rest |-> buf])
    ELSE LET v == read_binary_property(order, Head(props).data_type, buf) IN
         IF v.tag = "Err" THEN v
         ELSE BinaryProperties(order, Tail(props), v.val.rest,
                  KeyMapAdd(acc, [name |-> Head(props).name, value |-> v.val.value]))

\* Parser::read_big_endian_element / read_little_endian_element: one record read
\* from the bytes buf; rest is what the record leaves unread.
read_binary_element(order, buf, e) == BinaryProperties(order, e.properties, buf, <<>>)

\* Strategy with the byte order of the binary decoder fixed to big-endian.
StrategyBigEndianOnly(encoding) ==
    CASE encoding = "Ascii" -> [decoder |-> "ascii", order |-> "none"]
      [] encoding = "BinaryBigEndian" -> [decoder |-> "binary", order |-> "BigEndian"]
      [] encoding = "BinaryLittleEndian" ->
            [decoder |-> "binary", order |-> "BigEndian"]

\* The decoding strategy __read_payload and read_payload_for_element select.
Strategy(encoding) ==
    CASE encoding = "Ascii" -> [decoder |-> "ascii", order |-> "none"]
      [] encoding = "BinaryBigEndian" -> [decoder |-> "binary", order |-> "BigEndian"]
      [] encoding = "BinaryLittleEndian" ->
            [decoder |-> "binary", order |-> "LittleEndian"]

\* What one read_line call can deliver while ASCII records are read.
RecordTexts == {<<"1">>, <<"1", "2">>, <<"2", "1", "0">>, <<"x">>}
AsciiReads ==
    {[io_err |-> FALSE, line |-> t \o <<LF>>] : t \in RecordTexts}
        \cup {[io_err |-> FALSE, line |-> <<>>], [io_err |-> TRUE, line |-> <<>>]}

\* The bytes the stream can hold for one binary record, or what is left of the
\* stream when it ends inside the record.
BinaryReads == {<<>>, <<1>>, <<0, 1>>, <<1, 0, 1>>, <<1, 0, 1, 1>>}

\* The arguments read_payload_for_element is called with in the model.
Encodings == {"Ascii", "BinaryBigEndian", "BinaryLittleEndian"}
PropX == [name |-> "x", data_type |-> <<"Scalar", "Short">>]
PropY == [name |-> "y", data_type |-> <<"Scalar", "UChar">>]
PropL == [name |-> "l", data_type |-> <<"List", "UChar", "Short">>]
ElementDefArgs ==
    {[name |-> "vertex", count |-> 2, properties |-> <<PropX, PropY>>],
     [name |-> "face", count |-> 1, properties |-> <<PropL>>],
     [name |-> "edge", count |-> 2, properties |-> <<>>],
     [name |-> "none", count |-> 0, properties |-> <<PropY>>]}
HeaderArg(enc, e) ==
    [encoding |-> enc, version |-> [major |-> 1, minor |-> 0],
     obj_infos |-> <<>>, comments |-> <<>>, elements |-> <<e>>]

\* PayloadInsert with the new entry put before the entries there are.
PayloadInsertFront(p, k, es) == <<[name |-> k, elems |-> es]>> \o Without(p, k)

\* payload.insert(k.clone(), elems) in __read_payload.
PayloadInsert(p, k, es) == KeyMapAdd(p, [name |-> k, elems |-> es])

\* ------------------------------------------------------------------ actions

\* Parser::new: the one field is a PhantomData.
NewParser == [phantom |-> "PhantomData"]

Init ==
    /\ pc = "idle"
    /\ call = "none"
    /\ stream = <<>>
    /\ eof = FALSE
    /\ location = 0
    /\ line_str = <<>>
    /\ lines = <<>>
    /\ header_form_ver = None
    /\ header_obj_infos = <<>>
    /\ header_elements = <<>>
    /\ header_comments = <<>>
    /\ header = None
    /\ element_def = None
    /\ todo = <<>>
    /\ elems = <<>>
    /\ payload = <<>>
    /\ err_at = 0
    /\ result = Pending
    /\ parser = NewParser
    /\ inputs = <<>>
    /\ trackers = <<>>
    /\ calls = <<>>

\* The line read last did not end in a line feed: it was the last of the stream.
Unterminated ==
    /\ Len(stream) > 0
    /\ LET last == stream[Len(stream)] IN Len(last) > 0 /\ last[Len(last)] # LF

\* read_line on the stream: rd is what the underlying reader delivers.
ReadLine(rd) ==
    /\ (eof \/ Unterminated) => rd.line = <<>>
    /\ stream' = IF rd.io_err THEN stream ELSE Append(stream, rd.line)
    /\ eof' = (eof \/ (~rd.io_err /\ rd.line = <<>>))
    /\ line_str' = rd.line

\* Parser::read_header: a new LocationTracker, then __read_header.
read_header ==
    /\ pc = "idle"
    /\ UNCHANGED svars
    /\ call' = "read_header"
    /\ location' = 0
    /\ pc' = "magic"
    /\ UNCHANGED <<stream, eof, line_str, lines, hvars, pvars, err_at, result>>

\* Parser::read_ply: a new LocationTracker, then __read_header and __read_payload.
read_ply ==
    /\ pc = "idle"
    /\ UNCHANGED svars
    /\ call' = "read_ply"
    /\ location' = 0
    /\ pc' = "magic"
    /\ UNCHANGED <<stream, eof, line_str, lines, hvars, pvars, err_at, result>>

\* Parser::read_payload_for_element: a new LocationTracker, then the decoder the
\* header's encoding selects, for the one element given.
read_payload_for_element ==
    /\ pc = "idle"
    /\ UNCHANGED svars
    /\ \E enc \in Encodings, e \in ElementDefArgs :
        /\ header' = HeaderArg(enc, e)
        /\ element_def' = e
        /\ pc' = Strategy(enc).decoder
    /\ call' = "read_payload_for_element"
    /\ location' = 0
    /\ elems' = <<>>
    /\ UNCHANGED <<stream, eof, line_str, lines, hvars, todo, payload, err_at, result>>

\* __read_header up to the loop: the first line must be the magic number. The
\* line is one of reads.
ReadMagicNumberFrom(reads) ==
    /\ pc = "magic"
    /\ UNCHANGED svars
    /\ \E rd \in reads :
        /\ ReadLine(rd)
        /\ lines' = IF rd.io_err THEN lines ELSE Append(lines, read_header_line(rd.line))
        /\ IF rd.io_err
           THEN /\ location' = next_line(location)
                /\ Return(Err("Io"))
                /\ UNCHANGED hvars
           ELSE LET out == MagicLine(next_line(location), rd.line) IN
                IF out.tag = "Pending"
                THEN /\ SetHdr(NewHeaderState)
                     /\ location' = next_line(next_line(location))
                     /\ pc' = "loop"
                     /\ UNCHANGED <<err_at, result>>
                ELSE /\ location' = next_line(location)
                     /\ Return(out)
                     /\ UNCHANGED hvars
    /\ UNCHANGED <<call, pvars>>

ReadMagicNumber == ReadMagicNumberFrom(HeaderReads)

\* One pass of the 'readlines loop. The line is one of reads; a line that keeps
\* the loop going is taken while no more than bound lines have been read.
ReadHeaderLineWithin(reads, bound) ==
    /\ pc = "loop"
    /\ UNCHANGED svars
    /\ \E rd \in reads :
        /\ ReadLine(rd)
        /\ lines' = IF rd.io_err THEN lines ELSE Append(lines, read_header_line(rd.line))
        /\ IF rd.io_err
           THEN /\ Return(Err("Io"))
                /\ UNCHANGED <<location, hvars>>
           ELSE LET step == HeaderLine(Hdr, location, rd.line) IN
                /\ step.out.tag = "Pending" => Len(stream) <= bound
                /\ SetHdr(step.h)
                /\ CASE step.out.tag = "Pending" ->
                          /\ location' = next_line(location)
                          /\ UNCHANGED <<pc, err_at, result>>
                     [] step.out.tag = "Ok" ->
                          /\ location' = next_line(location)
                          /\ pc' = "finish"
                          /\ UNCHANGED <<err_at, result>>
                     [] OTHER ->
                          /\ Return(step.out)
                          /\ UNCHANGED location
    /\ UNCHANGED <<call, pvars>>

\* One pass of the 'readlines loop on a stream of at most MaxLines lines before
\* the line that ends the header.
ReadHeaderLineFrom(reads) == ReadHeaderLineWithin(reads, MaxLines)

ReadHeaderLine == ReadHeaderLineFrom(HeaderReads)

\* __read_header after the loop. read_header returns what it gives; read_ply
\* returns its error, or goes on to __read_payload with its Header.
FinishHeader ==
    /\ pc = "finish"
    /\ UNCHANGED svars
    /\ UNCHANGED <<call, stream, eof, location, line_str, lines, hvars>>
    /\ LET r == HeaderResult(Hdr) IN
       IF call = "read_ply" /\ r.tag = "Ok"
       THEN /\ header' = r.val
            /\ todo' = r.val.elements
            /\ payload' = <<>>
            /\ pc' = "payload"
            /\ UNCHANGED <<element_def, elems, err_at, result>>
       ELSE /\ Return(r)
            /\ UNCHANGED pvars

\* __read_payload: the head of the loop over header.elements. The next element
\* goes to the decoder of the header's encoding; after the last one read_ply
\* returns the Ply.
ReadPayload ==
    /\ pc = "payload"
    /\ UNCHANGED svars
    /\ UNCHANGED <<call, stream, eof, location, line_str, lines, hvars, header, payload>>
    /\ IF Len(todo) = 0
       THEN /\ Return(Ok([header |-> header, payload |-> payload]))
            /\ UNCHANGED <<element_def, todo, elems>>
       ELSE /\ element_def' = Head(todo)
            /\ todo' = Tail(todo)
            /\ elems' = <<>>
            /\ pc' = Strategy(header.encoding).decoder
            /\ UNCHANGED <<err_at, result>>

\* read_line that delivers nothing taken for a line of the stream.
StreamNeverEnded(line) == FALSE

\* read_line delivered nothing: the stream ended where a record was to be read.
StreamEnded(line) == line = <<>>

\* __read_ascii_payload_for_element: one record line read and decoded. A stream
\* that ends where a record is due is an error, whatever the element declares.
ReadAsciiRecord ==
    /\ pc = "ascii"
    /\ UNCHANGED svars
    /\ Len(elems) < element_def.count
    /\ \E rd \in AsciiReads :
        /\ ReadLine(rd)
        /\ IF rd.io_err
           THEN /\ Return(Err("Io"))
                /\ UNCHANGED <<location, elems>>
           ELSE IF StreamEnded(rd.line)
           THEN /\ Return(parse_ascii_error(location, "UnexpectedEof"))
                /\ UNCHANGED <<location, elems>>
           ELSE LET e == read_ascii_element(rd.line, element_def) IN
                IF e.tag = "Err"
                THEN /\ Return(parse_ascii_error(location, "MalformedRecord"))
                     /\ UNCHANGED <<location, elems>>
                ELSE /\ elems' = Append(elems, e.val)
                     /\ location' = next_line(location)
                     /\ UNCHANGED <<pc, err_at, result>>
    /\ UNCHANGED <<call, lines, hvars, header, element_def, todo, payload>>

\* __read_binary_payload_for_element: one record read from the bytes the stream
\* holds next. The bytes drawn are those of the record, or all that is left of
\* a stream that ends inside it.
ReadBinaryRecord ==
    /\ pc = "binary"
    /\ UNCHANGED svars
    /\ Len(elems) < element_def.count
    /\ \E buf \in BinaryReads :
        LET e == read_binary_element(Strategy(header.encoding).order, buf, element_def) IN
        /\ eof => buf = <<>>
        /\ e.tag = "Ok" => e.val.rest = <<>>
        /\ stream' = Append(stream, buf)
        /\ eof' = (eof \/ e.tag = "Err")
        /\ IF e.tag = "Err"
           THEN /\ Return(Err("UnexpectedEof"))
                /\ UNCHANGED elems
           ELSE /\ elems' = Append(elems, e.val.elem)
                /\ UNCHANGED <<pc, err_at, result>>
    /\ UNCHANGED <<call, location, line_str, lines, hvars, header, element_def, todo, payload>>

\* The decoder has read element_def.count records and returns them:
\* read_payload_for_element returns them, __read_payload inserts them in the
\* payload under the element's key.
ElementRead ==
    /\ pc \in {"ascii", "binary"}
    /\ UNCHANGED svars
    /\ Len(elems) >= element_def.count
    /\ UNCHANGED <<call, stream, eof, location, line_str, lines, hvars, header,
                   element_def, todo, elems>>
    /\ IF call = "read_ply"
       THEN /\ payload' = PayloadInsert(payload, element_def.name, elems)
            /\ pc' = "payload"
            /\ UNCHANGED <<err_at, result>>
       ELSE /\ Return(Ok(elems))
            /\ UNCHANGED payload

\* The bytes a reader can hold when one binary record is asked of it: the
\* bytes of BinaryReads, and two records of three bytes.
ReaderBytes == BinaryReads \cup {<<0, 1, 5, 0, 2, 6>>}

\* __read_binary_element::<T, B>(reader, element_def), as the two public
\* functions call it: one record of the element e is read from the reader in
\* the byte order B, whatever e.count is and with no header. The bytes of the
\* record are taken from the reader and the bytes after them are left in it; a
\* reader that ends inside the record is an error.
ReadBinaryElement(name, order) ==
    /\ pc = "idle"
    /\ UNCHANGED svars
    /\ \E e \in ElementDefArgs, buf \in ReaderBytes :
        LET r == read_binary_element(order, buf, e) IN
        /\ call' = name
        /\ element_def' = e
        /\ stream' = Append(stream, IF r.tag = "Err" THEN buf
                                    ELSE SubSeq(buf, 1, Len(buf) - Len(r.val.rest)))
        /\ eof' = (r.tag = "Err")
        /\ Return(IF r.tag = "Err" THEN Err("UnexpectedEof") ELSE Ok(r.val.elem))
    /\ UNCHANGED <<location, line_str, lines, hvars, header, todo, elems, payload>>

\* Parser::read_big_endian_element
read_big_endian_element == ReadBinaryElement("read_big_endian_element", "BigEndian")

\* Parser::read_little_endian_element
read_little_endian_element ==
    ReadBinaryElement("read_little_endian_element", "LittleEndian")

\* The lines the caller hands to read_ascii_element: record texts with and
\* without a line feed, and the empty line.
AsciiLines ==
    {t \o <<LF>> : t \in RecordTexts} \cup RecordTexts \cup {<<"0", "1", "2", "3">>, <<>>}

\* Parser::read_ascii_element, called by the user: the line is the caller's
\* string, no stream is read.
CallReadAsciiElement ==
    /\ pc = "idle"
    /\ UNCHANGED svars
    /\ \E e \in ElementDefArgs, ln \in AsciiLines :
        LET r == read_ascii_element(ln, e) IN
        /\ call' = "read_ascii_element"
        /\ element_def' = e
        /\ line_str' = ln
        /\ UNCHANGED stream
        /\ Return(IF r.tag = "Err" THEN Err("MalformedRecord") ELSE Ok(r.val))
    /\ UNCHANGED <<eof, location, lines, hvars, header, todo, elems, payload>>

\* The lines the caller hands to read_header_line: header texts alone, with
\* each line break, and with a line break inside.
HeaderLineArgs ==
    {t \o b : t \in HeaderTexts, b \in {<<>>, <<LF>>, <<CR>>, <<CR, LF>>}}
        \cup {<<"comment", "hi", LF, "a", "comment">>, <<>>}

\* Parser::read_header_line: the Line __read_header_line gives, or its error
\* wrapped in an InvalidInput error.
CallReadHeaderLine ==
    /\ pc = "idle"
    /\ UNCHANGED svars
    /\ \E ln \in HeaderLineArgs :
        LET r == read_header_line(ln) IN
        /\ call' = "read_header_line"
        /\ line_str' = ln
        /\ UNCHANGED stream
        /\ Return(IF r.tag = "Err" THEN Err("CouldNotParseLine") ELSE Ok(r.val))
    /\ UNCHANGED <<eof, location, lines, hvars, pvars>>

Next ==
    \/ read_header
    \/ read_ply
    \/ read_payload_for_element
    \/ read_big_endian_element
    \/ read_little_endian_element
    \/ CallReadAsciiElement
    \/ CallReadHeaderLine
    \/ ReadMagicNumber
    \/ ReadHeaderLine
    \/ FinishHeader
    \/ ReadPayload
    \/ ReadAsciiRecord
    \/ ReadBinaryRecord
    \/ ElementRead

Spec == Init /\ [][Next]_vars

\* read_header on streams with every kind of line break.
ReadMagicNumberAnyBreak == ReadMagicNumberFrom(LineReads)
ReadHeaderLineAnyBreak == ReadHeaderLineFrom(LineReads)

NextLines ==
    \/ read_header
    \/ ReadMagicNumberAnyBreak
    \/ ReadHeaderLineAnyBreak
    \/ FinishHeader

SpecLines == Init /\ [][NextLines]_vars

\* ------------------------------------------- calls that share one Parser

\* The read_header calls that run side by side on one Parser, each on a
\* stream of its own.
Calls == {1, 2}

\* The streams these calls read: whole headers, and headers that fail at the
\* first, at a later or after the last line.
SharedStreams ==
    {<<<<"ply", LF>>, <<"format", "ascii", "1.0", LF>>, <<"end_header", LF>>>>,
     <<<<"ply", LF>>, <<"format", "ascii", "1.0", LF>>, <<"element", "vertex", "1", LF>>,
       <<"property", "short", "x", LF>>, <<"end_header", LF>>>>,
     <<<<"ply", LF>>, <<"format", "ascii", "1.0", LF>>, <<"property", "short", "x", LF>>>>,
     <<<<"ply", LF>>, <<"comment", "hi", LF>>, <<"end_header", LF>>>>,
     <<<<"ply", LF>>, <<"format", "ascii", "1.0", LF>>>>,
     <<<<"ply", LF>>, <<"plyhi", LF>>>>,
     <<<<"plyhi", LF>>>>}

\* LocationTrackerOf with one tracker kept in the Parser for all its calls.
LocationTrackerOfParser(i) == 0

\* let mut line = LocationTracker::new(): the tracker call i works with is a
\* local of that call.
LocationTrackerOf(i) == i

InitShared ==
    /\ pc = "idle"
    /\ call = "none"
    /\ stream = <<>>
    /\ eof = FALSE
    /\ location = 0
    /\ line_str = <<>>
    /\ lines = <<>>
    /\ header_form_ver = None
    /\ header_obj_infos = <<>>
    /\ header_elements = <<>>
    /\ header_comments = <<>>
    /\ header = None
    /\ element_def = None
    /\ todo = <<>>
    /\ elems = <<>>
    /\ payload = <<>>
    /\ err_at = 0
    /\ result = Pending
    /\ parser = NewParser
    /\ inputs \in [Calls -> SharedStreams]
    /\ trackers = [k \in {LocationTrackerOf(i) : i \in Calls} |-> 0]
    /\ calls = [i \in Calls |->
                  [pc |-> "idle", cursor |-> 0, line_str |-> <<>>,
                   h |-> NewHeaderState, result |-> Pending]]

\* read_line on the stream of call i: its next line, or nothing at its end.
NextLineOf(i) ==
    LET n == calls[i].cursor + 1 IN
    IF n <= Len(inputs[i]) THEN inputs[i][n] ELSE <<>>

\* Parser::read_header, called on the shared Parser: a new LocationTracker.
SharedReadHeader(i) ==
    /\ calls[i].pc = "idle"
    /\ trackers' = [trackers EXCEPT ![LocationTrackerOf(i)] = 0]
    /\ calls' = [calls EXCEPT ![i].pc = "magic"]
    /\ UNCHANGED <<cvars, parser, inputs>>

\* __read_header of call i up to the loop.
SharedReadMagicNumber(i) ==
    /\ calls[i].pc = "magic"
    /\ LET k == LocationTrackerOf(i)
           ln == NextLineOf(i)
           loc == next_line(trackers[k])
           out == MagicLine(loc, ln)
       IN IF out.tag = "Pending"
          THEN /\ trackers' = [trackers EXCEPT ![k] = next_line(loc)]
               /\ calls' = [calls EXCEPT ![i] =
                              [@ EXCEPT !.pc = "loop", !.cursor = @ + 1,
                                        !.line_str = ln, !.h = NewHeaderState]]
          ELSE /\ trackers' = [trackers EXCEPT ![k] = loc]
               /\ calls' = [calls EXCEPT ![i] =
                              [@ EXCEPT !.pc = "done", !.cursor = @ + 1,
                                        !.line_str = ln, !.result = out]]
    /\ UNCHANGED <<cvars, parser, inputs>>

\* One pass of the 'readlines loop of call i.
SharedReadHeaderLine(i) ==
    /\ calls[i].pc = "loop"
    /\ LET k == LocationTrackerOf(i)
           ln == NextLineOf(i)
           step == HeaderLine(calls[i].h, trackers[k], ln)
       IN /\ trackers' = IF step.out.tag \in {"Pending", "Ok"}
                         THEN [trackers EXCEPT ![k] = next_line(@)]
                         ELSE trackers
          /\ calls' = [calls EXCEPT ![i] =
                         [@ EXCEPT !.cursor = @ + 1, !.line_str = ln, !.h = step.h,
                                   !.pc = CASE step.out.tag = "Pending" -> "loop"
                                            [] step.out.tag = "Ok" -> "finish"
                                            [] OTHER -> "done",
                                   !.result = IF step.out.tag \in {"Pending", "Ok"}
                                              THEN @ ELSE step.out]]
    /\ UNCHANGED <<cvars, parser, inputs>>

\* __read_header of call i after the loop.
SharedFinishHeader(i) ==
    /\ calls[i].pc = "finish"
    /\ calls' = [calls EXCEPT ![i] =
                   [@ EXCEPT !.pc = "done", !.result = HeaderResult(calls[i].h)]]
    /\ UNCHANGED <<cvars, parser, inputs, trackers>>

NextShared ==
    \/ \E i \in Calls : SharedReadHeader(i)
    \/ \E i \in Calls : SharedReadMagicNumber(i)
    \/ \E i \in Calls : SharedReadHeaderLine(i)
    \/ \E i \in Calls : SharedFinishHeader(i)

SpecShared == InitShared /\ [][NextShared]_vars

\* ------------------------------------------- read_ply on whole header files

\* The lines of the texts ts, each ended by a line feed.
WithLF(ts) == [i \in 1..Len(ts) |-> ts[i] \o <<LF>>]

\* The headers read_ply reads from a file: a format line and two element lines,
\* each followed by a property line.
PlyHeaders ==
    {WithLF(<<<<"ply">>, f, e1, p1, e2, p2, <<"end_header">>>>) :
        f \in FormatTexts, e1 \in ElementTexts, p1 \in PropertyTexts,
        e2 \in ElementTexts, p2 \in PropertyTexts}

InitPly ==
    /\ pc = "idle"
    /\ call = "none"
    /\ stream = <<>>
    /\ eof = FALSE
    /\ location = 0
    /\ line_str = <<>>
    /\ lines = <<>>
    /\ header_form_ver = None
    /\ header_obj_infos = <<>>
    /\ header_elements = <<>>
    /\ header_comments = <<>>
    /\ header = None
    /\ element_def = None
    /\ todo = <<>>
    /\ elems = <<>>
    /\ payload = <<>>
    /\ err_at = 0
    /\ result = Pending
    /\ parser = NewParser
    /\ inputs \in {<<f>> : f \in PlyHeaders}
    /\ trackers = <<>>
    /\ calls = <<>>

\* read_line while the header of the file is read: the next line of the file,
\* or nothing at its end.
FileReads ==
    {[io_err |-> FALSE,
      line |-> IF Len(stream) < Len(inputs[1]) THEN inputs[1][Len(stream) + 1] ELSE <<>>]}

PlyReadMagicNumber == ReadMagicNumberFrom(FileReads)
PlyReadHeaderLine == ReadHeaderLineWithin(FileReads, Len(inputs[1]))

\* read_ply on a file with one of these headers; the records that follow the
\* header are whatever the stream delivers.
NextPly ==
    \/ read_ply \/ PlyReadMagicNumber \/ PlyReadHeaderLine \/ FinishHeader
    \/ ReadPayload \/ ReadAsciiRecord \/ ReadBinaryRecord \/ ElementRead

SpecPly == InitPly /\ [][NextPly]_vars

\* ------------------------------------------------- what the claims speak of

\* __read_header is running or has just returned: the stream read so far holds
\* the lines of the header and nothing else.
HeaderPhase ==
    \/ call = "read_header"
    \/ /\ call = "read_ply"
       /\ \/ header = None
          \/ pc = "payload" /\ payload = <<>> /\ todo = header.elements

\* __read_header has returned a Header, and the Header it returned.
HeaderReturned ==
    /\ HeaderPhase
    /\ \/ call = "read_header" /\ result.tag = "Ok"
       \/ call = "read_ply" /\ header # None
TheHeader == IF call = "read_header" THEN result.val ELSE header

\* The kind of Line that line n of the stream was classified as.
LineKind(n) == IF lines[n].tag = "Err" THEN "Error" ELSE lines[n].val.kind

\* The value line n carries (a format pair, an ElementDef, a PropertyDef, a text).
LineVal(n) == lines[n].val.val

\* The numbers of the lines of kind k that the loop of __read_header has read.
LineNos(k) == {n \in 2..Len(lines) : LineKind(n) = k}

Least(S) == CHOOSE n \in S : \A m \in S : n <= m

\* The call returned an error of this kind at line k, citing line k.
FailedAt(k, kind) ==
    /\ pc = "done"
    /\ result.tag = "Err" /\ result.kind = kind
    /\ result.located /\ result.line = k
    /\ err_at = k

RemoveAt(s, k) == [i \in 1..(Len(s) - 1) |-> IF i < k THEN s[i] ELSE s[i + 1]]

RECURSIVE HeaderLoopOf(_, _, _)
HeaderLoopOf(h, loc, ls) ==
    IF Len(ls) = 0 THEN HeaderLine(h, loc, <<>>).out
    ELSE LET step == HeaderLine(h, loc, Head(ls)) IN
         IF step.out.tag = "Pending" THEN HeaderLoopOf(step.h, next_line(loc), Tail(ls))
         ELSE IF step.out.tag = "Ok" THEN HeaderResult(step.h)
         ELSE step.out

\* What read_header returns on a stream that holds exactly these ls.
ReadHeaderOf(ls) ==
    IF Len(ls) = 0 THEN MagicLine(1, <<>>)
    ELSE LET out == MagicLine(1, Head(ls)) IN
         IF out.tag = "Pending" THEN HeaderLoopOf(NewHeaderState, 2, Tail(ls))
         ELSE out

\* C1: a format line that follows a recorded format and differs from it in
\* encoding or version makes the call fail at that line; one equal to the
\* recorded format is accepted, and the Header returned is the Header of the
\* same lines without the repeated format line.
C1_RepeatedFormat ==
    HeaderPhase =>
        LET formats == LineNos("Format") IN
        formats # {} =>
            LET first == Least(formats) IN
            \A k \in formats \ {first} :
                IF LineVal(k) # LineVal(first)
                THEN FailedAt(k, "ContradictingFormat")
                ELSE /\ ~(result.tag = "Err" /\ err_at = k)
                     /\ HeaderReturned =>
                            ReadHeaderOf(RemoveAt(stream, k)) = Ok(TheHeader)

\* A Header was returned for a header with an element line between two equal
\* format lines.
C1_Witness ==
    /\ call = "read_header" /\ result.tag = "Ok"
    /\ \E j, k \in LineNos("Format") :
        j < k /\ \E e \in LineNos("Element") : j < e /\ e < k

\* C2: a property line read while no element line has been read makes the call
\* fail at that line with the property-before-element error.
C2_PropertyBeforeElement ==
    HeaderPhase =>
        LET elements == LineNos("Element") IN
        \A k \in LineNos("Property") :
            (\A j \in elements : j > k) => FailedAt(k, "PropertyWithoutElement")

\* The call failed on a property line that follows the format line and a comment.
C2_Witness ==
    /\ HeaderPhase /\ pc = "done" /\ Len(stream) = 4
    /\ LineKind(2) = "Format"
    /\ LineKind(3) = "Comment"
    /\ LineKind(4) = "Property"

RECURSIVE Declared(_, _)
\* The elements declared from line n on, in the order of their lines, each with
\* the properties of the property lines between its line and the next element
\* line, in their order.
Declared(n, acc) ==
    IF n > Len(lines) THEN acc
    ELSE Declared(n + 1,
             IF LineKind(n) = "Element" THEN Append(acc, LineVal(n))
             ELSE IF LineKind(n) = "Property" /\ Len(acc) > 0
                  THEN [acc EXCEPT ![Len(acc)].properties = Append(@, LineVal(n))]
                  ELSE acc)

DistinctNames(m) == \A i, j \in 1..Len(m) : m[i].name = m[j].name => i = j

\* Element names are distinct, and so are the property names of each element.
AllDistinct(es) ==
    DistinctNames(es) /\ \A i \in 1..Len(es) : DistinctNames(es[i].properties)

\* C3: for an accepted header with distinct element names and distinct property
\* names in each element, the Header lists the elements in the order of their
\* lines, each with the properties declared between its line and the next
\* element line, in the order of those lines.
C3_ElementsInOrder ==
    HeaderReturned =>
        LET declared == Declared(2, <<>>) IN
        AllDistinct(declared) => TheHeader.elements = declared

\* A Header with two elements, the first of them with a property, and a comment
\* or a format line between the element lines.
C3_Witness ==
    /\ HeaderReturned
    /\ Len(TheHeader.elements) = 2
    /\ Len(TheHeader.elements[1].properties) = 1
    /\ AllDistinct(Declared(2, <<>>))
    /\ \E e1, e2 \in LineNos("Element") :
        /\ e1 < e2
        /\ \E p \in LineNos("Property") : e1 < p /\ p < e2

\* Line k is an element line, and line j before it declares the same name.
SameElement(j, k) ==
    /\ j < k
    /\ LineVal(j).name = LineVal(k).name

\* C4: an element line that names an element already declared in this header
\* makes the call fail at that line, and the earlier definition stays as it was.
C4_DuplicateElementFails ==
    HeaderPhase =>
        LET elements == LineNos("Element") IN
        \A k \in elements :
            (\E j \in elements : SameElement(j, k)) =>
                pc = "done" /\ result.tag = "Err" /\ err_at = k

\* Lines j < k are property lines of the same element that bear the same name.
SameProperty(j, k) ==
    /\ j < k
    /\ LineVal(j).name = LineVal(k).name
    /\ \A e \in LineNos("Element") : ~(j < e /\ e < k)

\* C5: a property line that names a property already attached to the most
\* recently declared element makes the call fail at that line.
C5_DuplicatePropertyFails ==
    HeaderPhase =>
        LET properties == LineNos("Property") IN
        \A k \in properties :
            (\E j \in properties : SameProperty(j, k) /\ \E e \in LineNos("Element") : e < j)
                => pc = "done" /\ result.tag = "Err" /\ err_at = k

\* C6: a Header is returned only if line 1 is the magic number and no later
\* line is: any other first line fails at line 1, a later magic number fails at
\* its line.
C6_MagicNumberFirstOnly ==
    (HeaderPhase /\ Len(lines) >= 1) =>
        /\ LineKind(1) # "MagicNumber" => FailedAt(1, "ExpectedMagicNumber")
        /\ \A k \in LineNos("MagicNumber") : FailedAt(k, "UnexpectedMagicNumber")
        /\ HeaderReturned =>
              LineKind(1) = "MagicNumber" /\ LineNos("MagicNumber") = {}

\* The call failed on a magic number met after a format line and an element line.
C6_Witness ==
    /\ HeaderPhase
    /\ FailedAt(4, "UnexpectedMagicNumber")
    /\ LineKind(2) = "Format"
    /\ LineKind(3) = "Element"

\* C7: end_header reached with no format line read is the missing-format error;
\* a Header returned carries the encoding and version of the first format line.
C7_FormatRequired ==
    HeaderPhase =>
        LET formats == LineNos("Format") IN
        /\ (/\ pc = "done" /\ Len(lines) >= 2
            /\ LineKind(1) = "MagicNumber"
            /\ LineKind(Len(lines)) = "EndHeader"
            /\ formats = {})
           => result = Err("NoFormat")
        /\ HeaderReturned =>
              /\ formats # {}
              /\ <<TheHeader.encoding, TheHeader.version>> = LineVal(Least(formats))

\* The call failed for the missing format on a header that declares an element.
C7_Witness ==
    /\ HeaderPhase /\ pc = "done"
    /\ result = Err("NoFormat")
    /\ LineNos("Element") # {}

\* C8: a stream that ends before end_header was read ends the call with an
\* error at the read that meets the end of the stream.
C8_TruncatedHeader ==
    (HeaderPhase /\ eof) => (pc = "done" /\ result.tag = "Err" /\ err_at = Len(stream))

\* The stream ended after the format line and an element line.
C8_Witness ==
    /\ HeaderPhase /\ eof /\ Len(stream) = 4
    /\ result.tag = "Err"
    /\ LineKind(2) = "Format"
    /\ LineKind(3) = "Element"

\* C9: __read_header never panics, and a line the grammar rejects ends the call
\* with an error.
C9_NoPanic ==
    HeaderPhase =>
        /\ result.tag # "Panic"
        /\ pc = "done" => result.tag \in {"Ok", "Err"}
        /\ LineNos("Error") # {} => (pc = "done" /\ result.tag = "Err")

\* A Header was returned after a repeated format line and a property line: both
\* unwraps of the loop and the one after it were reached.
C9_Witness ==
    /\ HeaderReturned
    /\ Cardinality(LineNos("Format")) = 2
    /\ LineNos("Property") # {}

PayloadCall == call \in {"read_ply", "read_payload_for_element"}

\* What a successful call returns has, for every element, as many records as
\* the element declares.
DeclaredCounts ==
    /\ (call = "read_ply" /\ pc = "done" /\ result.tag = "Ok") =>
          LET p == result.val.payload
              es == result.val.header.elements
          IN /\ Len(p) = Len(es)
             /\ \A i \in 1..Len(es) :
                   p[i].name = es[i].name /\ Len(p[i].elems) = es[i].count
    /\ (call = "read_payload_for_element" /\ pc = "done" /\ result.tag = "Ok") =>
          Len(result.val) = element_def.count

\* C10: the payload a successful call returns has one sequence of declared_count
\* records per element of the header (an empty one for count 0), and a call that
\* meets the end of the stream before all declared records of an element are
\* read returns an error, never a shorter sequence.
C10_DeclaredCounts ==
    /\ DeclaredCounts
    /\ (PayloadCall /\ header # None /\ eof) =>
          /\ pc = "done" /\ result.tag = "Err"
          /\ Len(elems) < element_def.count

\* read_ply returned a payload with two records for one element and none for
\* another.
C10_Witness ==
    /\ call = "read_ply" /\ pc = "done" /\ result.tag = "Ok"
    /\ \E i, j \in 1..Len(result.val.payload) :
          /\ Len(result.val.payload[i].elems) = 2
          /\ Len(result.val.payload[j].elems) = 0
    /\ \E i \in 1..Len(result.val.header.elements) :
          Len(result.val.header.elements[i].properties) > 0

\* The record the decoder read last, as it stands in the stream.
LastRecord == stream[Len(stream)]

\* C11: the decoder that runs is the one the header's encoding names, for every
\* element and in both read_ply and read_payload_for_element: under Ascii every
\* record is the ASCII decoding of its line, under BinaryBigEndian the
\* big-endian reading of its bytes, under BinaryLittleEndian the little-endian
\* reading of its bytes.
C11_StrategyByEncoding ==
    (PayloadCall /\ pc \in {"ascii", "binary"}) =>
        /\ pc = "ascii" <=> header.encoding = "Ascii"
        /\ pc = "binary" <=> header.encoding \in {"BinaryBigEndian", "BinaryLittleEndian"}
        /\ (pc = "ascii" /\ Len(elems) > 0) =>
              read_ascii_element(LastRecord, element_def) = Ok(elems[Len(elems)])
        /\ (pc = "binary" /\ Len(elems) > 0) =>
              LET order == IF header.encoding = "BinaryBigEndian"
                           THEN "BigEndian" ELSE "LittleEndian"
              IN read_binary_element(order, LastRecord, element_def)
                     = Ok([elem |-> elems[Len(elems)], rest |-> <<>>])

\* read_ply decoded the two bytes 0, 1 of a little-endian file as the short 256.
C11_Witness ==
    /\ call = "read_ply" /\ pc = "binary"
    /\ header.encoding = "BinaryLittleEndian"
    /\ Len(elems) = 1
    /\ LastRecord = <<0, 1>>
    /\ elems[1] = <<[name |-> "x", value |-> 256]>>

RECURSIVE RecordsOf(_)
\* The number of records the payload entries p hold.
RecordsOf(p) == IF Len(p) = 0 THEN 0 ELSE Len(Head(p).elems) + RecordsOf(Tail(p))

\* The names of the values of a KeyMap, front to back.
NamesOf(m) == [i \in 1..Len(m) |-> m[i].name]

\* C12: an error ends the call at the read that caused it and is all the caller
\* gets: nothing is read after the failing read; a header error in read_ply
\* leaves the payload unread; an error in one element of the payload leaves the
\* later elements undecoded; a Ply is returned only with every element decoded.
C12_FailFast ==
    /\ result.tag = "Err" =>
          /\ pc = "done"
          /\ "val" \notin DOMAIN result
          /\ err_at = IF result.kind = "Io" THEN Len(stream) + 1 ELSE Len(stream)
    /\ (HeaderPhase /\ result.tag = "Err") =>
          /\ Len(stream) = Len(lines)
          /\ \A n \in 1..(Len(lines) - 1) : LineKind(n) \notin {"Error", "EndHeader"}
          /\ header = None /\ elems = <<>> /\ payload = <<>>
    /\ (call = "read_ply" /\ result.tag = "Err" /\ header # None) =>
          /\ Len(elems) < element_def.count
          /\ NamesOf(header.elements)
                = NamesOf(payload) \o <<element_def.name>> \o NamesOf(todo)
          /\ err_at = Len(lines) + RecordsOf(payload) + Len(elems) + 1
    /\ (call = "read_ply" /\ result.tag = "Ok") =>
          /\ todo = <<>>
          /\ NamesOf(result.val.payload) = NamesOf(result.val.header.elements)

\* read_ply failed on the second record of the first of two elements.
C12_Witness ==
    /\ call = "read_ply" /\ pc = "done"
    /\ result.tag = "Err" /\ result.kind = "MalformedRecord"
    /\ Len(elems) = 1
    /\ Len(todo) = 1
    /\ payload = <<>>

RECURSIVE SplitLines(_, _, _)
\* The texts of the lines of s, a line ending at LF, at CR LF or at CR alone
\* (acc holds the lines found, cur the words of the line being read).
SplitLines(s, cur, acc) ==
    IF Len(s) = 0 THEN (IF Len(cur) = 0 THEN acc ELSE Append(acc, cur))
    ELSE IF Len(s) >= 2 /\ s[1] = CR /\ s[2] = LF
         THEN SplitLines(SubSeq(s, 3, Len(s)), <<>>, Append(acc, cur))
    ELSE IF IsBreakChar(s[1]) THEN SplitLines(Tail(s), <<>>, Append(acc, cur))
    ELSE SplitLines(Tail(s), Append(cur, s[1]), acc)

RECURSIVE Flatten(_)
Flatten(ss) == IF Len(ss) = 0 THEN <<>> ELSE Head(ss) \o Flatten(Tail(ss))

\* The texts of the lines of the stream read so far, whatever ends them.
FileTexts == SplitLines(Flatten(stream), <<>>, <<>>)

\* The lines of these texts, each ended by the line break b.
WithBreak(texts, b) == [i \in 1..Len(texts) |-> texts[i] \o b]

\* C13: read_header returns, on a header whose lines end in LF, in CR alone or
\* in CR LF, the Header it returns on the same lines ended by LF.
C13_AnyLineBreak ==
    (call = "read_header" /\ pc = "done") =>
        LET r == ReadHeaderOf(WithBreak(FileTexts, <<LF>>)) IN
        r.tag = "Ok" => result = r

\* C14: the Parser is never changed, and a read_header call that shares it with
\* another call, run before it, after it or interleaved with it line by line,
\* returns what it returns on its stream when run alone.
C14_NoSharedState ==
    /\ parser = NewParser
    /\ \A i \in DOMAIN calls :
          calls[i].pc = "done" => calls[i].result = ReadHeaderOf(inputs[i])

\* Call 2 failed at its line 3 and call 1 has read three lines of a longer header.
C14_Witness ==
    /\ DOMAIN calls = Calls
    /\ calls[2].pc = "done"
    /\ calls[2].result = parse_ascii_error(3, "PropertyWithoutElement")
    /\ calls[1].pc = "loop" /\ calls[1].cursor = 3
    /\ trackers[LocationTrackerOf(1)] = 4

\* C15: read_header reads up to the first end_header line and no further: while
\* its loop runs no end_header line has been read, and when it returns a Header
\* the line read last is the only end_header line, no read has met the end of
\* the stream, and the Header is the Header of the lines read.
C15_StopsAtEndHeader ==
    /\ (call = "read_header" /\ pc = "loop") =>
          \A n \in 1..Len(lines) : LineKind(n) # "EndHeader"
    /\ (call = "read_header" /\ result.tag = "Ok") =>
          /\ Len(stream) = Len(lines)
          /\ LineKind(Len(lines)) = "EndHeader"
          /\ \A n \in 1..(Len(lines) - 1) : LineKind(n) # "EndHeader"
          /\ ~eof
          /\ result = ReadHeaderOf(stream)

\* A Header with an element was returned on a stream that ends with end_header
\* and no line break.
C15_Witness ==
    /\ call = "read_header" /\ result.tag = "Ok"
    /\ stream[Len(stream)] = <<"end_header">>
    /\ Len(result.val.elements) = 1

\* The numbers the tokens of a record line spell, when every token spells one.
Parsable(line) == \A i \in 1..Len(StripBreak(line)) : StripBreak(line)[i] \in DOMAIN NumberOf
TokensOf(line) == [i \in 1..Len(StripBreak(line)) |-> NumberOf[StripBreak(line)[i]]]

RECURSIVE TokensNeeded(_, _, _)
\* The number of tokens the properties props take of toks from token at on: one
\* for a Scalar, one and the number it spells for a List; -1 when a token that
\* is needed is not there.
TokensNeeded(props, toks, at) ==
    IF Len(props) = 0 THEN 0
    ELSE IF at > Len(toks) THEN -1
    ELSE LET n == IF Head(props).data_type[1] = "Scalar" THEN 1 ELSE 1 + toks[at]
             more == IF at + n - 1 > Len(toks) THEN -1
                     ELSE TokensNeeded(Tail(props), toks, at + n)
         IN IF more = -1 THEN -1 ELSE n + more

\* The token a property starts at, as the tokens of the properties before it say.
StartOf(props, toks, i) == 1 + TokensNeeded(SubSeq(props, 1, i - 1), toks, 1)

\* The record the tokens toks stand for: each property with the token at its
\* place, a List with the tokens that follow its count.
RecordOf(props, toks) ==
    [i \in 1..Len(props) |->
        LET at == StartOf(props, toks, i) IN
        [name |-> props[i].name,
         value |-> IF props[i].data_type[1] = "Scalar" THEN toks[at]
                   ELSE [j \in 1..toks[at] |-> toks[at + j]]]]

\* C16: a record line decoded by read_ascii_element gives each property, in the
\* declared order, the tokens at its place (one for a Scalar, the count and that
\* many for a List) and ignores the tokens left over; the line is rejected only
\* if a token does not parse or a token that is needed is missing.
C16_AsciiRecord ==
    /\ (PayloadCall /\ pc = "ascii" /\ Len(elems) > 0) =>
          LET toks == TokensOf(LastRecord) IN
          /\ Parsable(LastRecord)
          /\ TokensNeeded(element_def.properties, toks, 1) \in 0..Len(toks)
          /\ elems[Len(elems)] = RecordOf(element_def.properties, toks)
    /\ (PayloadCall /\ pc = "done" /\ result.tag = "Err"
            /\ result.kind = "MalformedRecord") =>
          \/ ~Parsable(LastRecord)
          \/ TokensNeeded(element_def.properties, TokensOf(LastRecord), 1) = -1
    /\ (call = "read_ascii_element" /\ pc = "done") =>
          LET toks == TokensOf(line_str)
              enough == /\ Parsable(line_str)
                        /\ TokensNeeded(element_def.properties, toks, 1) \in 0..Len(toks)
          IN IF enough THEN result = Ok(RecordOf(element_def.properties, toks))
             ELSE result.tag = "Err"

\* The line 2 1 0 was decoded for an element with two scalar properties: the
\* third token is left over.
C16_Witness ==
    /\ PayloadCall /\ pc = "ascii"
    /\ Len(element_def.properties) = 2
    /\ Len(elems) = 1
    /\ LastRecord = <<"2", "1", "0", LF>>
    /\ elems[1] = <<[name |-> "x", value |-> 2], [name |-> "y", value |-> 1]>>

\* C17: in __read_header the tracker, which starts at 0, is the number of the
\* line being classified: while the loop waits for line k it is k, an error that
\* cites a line cites the line read last and leaves the tracker on it, and after
\* the end_header line, line n, the tracker is n + 1.
C17_LocationIsLineNumber ==
    HeaderPhase =>
        /\ pc = "magic" => location = 0
        /\ pc = "loop" => location = Len(lines) + 1
        /\ (pc = "done" /\ result.tag = "Err" /\ result.located) =>
              /\ result.line = Len(lines)
              /\ result.line = err_at
              /\ location = Len(lines)
        /\ (pc = "finish" \/ HeaderReturned) =>
              /\ LineKind(Len(lines)) = "EndHeader"
              /\ location = Len(lines) + 1

\* A format line that contradicts the recorded format was met at line 4.
C17_Witness ==
    /\ HeaderPhase
    /\ FailedAt(4, "ContradictingFormat")
    /\ location = 4
    /\ LineKind(3) = "Comment"

RECURSIVE PayloadForElementOf(_, _, _, _)
\* What read_payload_for_element returns for element e under the encoding enc
\* on a stream that holds the records recs, with the records it leaves unread
\* (acc holds the records decoded so far).
PayloadForElementOf(enc, e, recs, acc) ==
    IF Len(acc) >= e.count THEN Ok([elems |-> acc, rest |-> recs])
    ELSE LET rec == IF Len(recs) = 0 THEN <<>> ELSE Head(recs)
             s == Strategy(enc)
             d == IF s.decoder = "binary" THEN read_binary_element(s.order, rec, e)
                  ELSE IF StreamEnded(rec) THEN [tag |-> "Err"]
                  ELSE read_ascii_element(rec, e)
         IN IF d.tag = "Err" THEN Err("Element")
            ELSE PayloadForElementOf(enc, e, IF Len(recs) = 0 THEN recs ELSE Tail(recs),
                     Append(acc, IF s.decoder = "ascii" THEN d.val ELSE d.val.elem))

RECURSIVE ElementWise(_, _, _)
\* The entries read_payload_for_element gives when it is called for the
\* elements es one after the other, in this order, on the stream of records recs.
ElementWise(enc, es, recs) ==
    IF Len(es) = 0 THEN <<>>
    ELSE LET r == PayloadForElementOf(enc, Head(es), recs, <<>>) IN
         IF r.tag = "Err" THEN <<r>>
         ELSE <<[name |-> Head(es).name, elems |-> r.val.elems]>>
                  \o ElementWise(enc, Tail(es), r.val.rest)

RECURSIVE OwnersOf(_, _)
\* For every record of a payload of the elements es, from element i on and in
\* the order of the elements, the place in es of the element it belongs to.
OwnersOf(es, i) ==
    IF i > Len(es) THEN <<>>
    ELSE [k \in 1..es[i].count |-> i] \o OwnersOf(es, i + 1)

\* One record of element e decoded under the encoding enc from what one read
\* of the stream delivered.
DecodeOne(enc, rec, e) ==
    IF Strategy(enc).decoder = "ascii" THEN read_ascii_element(rec, e).val
    ELSE read_binary_element(Strategy(enc).order, rec, e).val.elem

\* C18: the Ply read_ply returns has the Header read_header returns on the
\* lines of the header, and for the elements of this Header, in their order,
\* the records read_payload_for_element returns when called for one element
\* after the other on the stream that follows the header; the reads after the
\* header are, one after the other, the records of the first element, then
\* those of the second, and so on.
C18_Composition ==
    (call = "read_ply" /\ pc = "done" /\ result.tag = "Ok") =>
        LET n == Len(lines)
            h == result.val.header
            p == result.val.payload
            recs == SubSeq(stream, n + 1, Len(stream))
            own == OwnersOf(h.elements, 1)
        IN /\ ReadHeaderOf(SubSeq(stream, 1, n)) = Ok(h)
           /\ p = ElementWise(h.encoding, h.elements, recs)
           /\ Len(recs) = Len(own)
           /\ \A k \in 1..Len(recs) :
                 LET j == Cardinality({m \in 1..k : own[m] = own[k]}) IN
                 p[own[k]].elems[j] = DecodeOne(h.encoding, recs[k], h.elements[own[k]])

\* read_ply returned a Ply with two records of the first element and one of the
\* second: the first two lines after the header went to the first element, the
\* third line to the second.
C18_Witness ==
    /\ call = "read_ply" /\ pc = "done" /\ result.tag = "Ok"
    /\ SubSeq(stream, Len(lines) + 1, Len(stream))
          = <<<<"1", LF>>, <<"2", "1", "0", LF>>, <<"1", "2", LF>>>>
    /\ result.val.payload
          = <<[name |-> "vertex",
               elems |-> << <<[name |-> "x", value |-> 1]>>,
                            <<[name |-> "x", value |-> 2]>> >>],
              [name |-> "face", elems |-> << <<[name |-> "y", value |-> 1]>> >>]>>

RECURSIVE ValsOf(_, _)
\* The values of the lines of kind k from line n on, in the order of the lines.
ValsOf(k, n) ==
    IF n > Len(lines) THEN <<>>
    ELSE (IF LineKind(n) = k THEN <<LineVal(n)>> ELSE <<>>) \o ValsOf(k, n + 1)

\* A line of the stream is a comment line or an obj_info line.
IsRemark(ln) ==
    LET parsed == read_header_line(ln) IN
    parsed.tag = "Ok" /\ parsed.val.kind \in {"Comment", "ObjInfo"}

\* C19: the comments of a Header returned are the texts of the comment lines
\* and its obj_infos the texts of the obj_info lines, each in the order of the
\* lines and with repeated texts kept; but for these two lists the Header is
\* the Header of the same lines without the comment and obj_info lines.
C19_RemarksInOrder ==
    HeaderReturned =>
        /\ TheHeader.comments = ValsOf("Comment", 2)
        /\ TheHeader.obj_infos = ValsOf("ObjInfo", 2)
        /\ ReadHeaderOf(SelectSeq(stream, LAMBDA ln : ~IsRemark(ln)))
              = Ok([TheHeader EXCEPT !.comments = <<>>, !.obj_infos = <<>>])

\* A Header was returned for a header with the comment hi, an obj_info line
\* and an empty comment, in this order.
C19_Witness ==
    /\ HeaderReturned
    /\ TheHeader.comments = << <<"hi">>, <<>> >>
    /\ TheHeader.obj_infos = << <<"hi">> >>
    /\ LineKind(3) = "Comment" /\ LineKind(4) = "ObjInfo" /\ LineKind(5) = "Comment"

\* This step of __read_header reads a property line and the loop goes on.
PropertyStep ==
    /\ HeaderPhase /\ pc = "loop" /\ pc' = "loop"
    /\ Len(lines') = Len(lines) + 1
    /\ lines'[Len(lines')].tag = "Ok"
    /\ lines'[Len(lines')].val.kind = "Property"

\* C20: a step that handles a property line leaves the elements mapping with
\* the same elements in the same order, with their names and counts, leaves
\* every element but the last as it was, puts the property at the end of the
\* last element's properties, and leaves the format, the comments and the
\* obj_infos as they were.
C20_PropertyFrame ==
    [][PropertyStep =>
        LET n == Len(header_elements) IN
        /\ n > 0
        /\ Len(header_elements') = n
        /\ \A i \in 1..n :
              /\ header_elements'[i].name = header_elements[i].name
              /\ header_elements'[i].count = header_elements[i].count
        /\ \A i \in 1..(n - 1) : header_elements'[i] = header_elements[i]
        /\ LET ps == header_elements'[n].properties IN
              Len(ps) > 0 /\ ps[Len(ps)] = lines'[Len(lines')].val.val
        /\ header_form_ver' = header_form_ver
        /\ header_comments' = header_comments
        /\ header_obj_infos' = header_obj_infos]_vars

\* A property line was handled after two element lines: the property is on the
\* second element and the first has none.
C20_Witness ==
    /\ HeaderPhase /\ pc = "loop"
    /\ LineKind(Len(lines)) = "Property"
    /\ Len(header_elements) = 2
    /\ header_elements[1].properties = <<>>
    /\ Len(header_elements[2].properties) = 1

====
